---- MODULE Spec2Model ----
(***************************************************************************)
(* Model of the action-dispatch and wallet-operation layer of             *)
(* ZerePy/src/connections/monad_connection.py (class MonadConnection).    *)
(*                                                                         *)
(* Amounts of the native asset and of tokens are integers counted in      *)
(* ticks of 10^-5 of a whole unit (1.5 ether = 150000 ticks), so that the *)
(* fixed gas cost of a simple transfer, 50 gwei x 21000 = 0.00105 ether,  *)
(* is the whole number 105.  Python floats are modelled by these exact    *)
(* integers.                                                               *)
(***************************************************************************)
EXTENDS Integers, Sequences, FiniteSets, TLC

(***************************************************************************)
(* Program constants                                                       *)
(***************************************************************************)
MONAD_BASE_GAS_PRICE == 50

MONAD_CHAIN_ID == 10143

MONAD_SCANNER_URL == "testnet.monadexplorer.com"

NATIVE_TOKEN == "0xEeeeeEeeeEeEeeEeEeEeeEEEeeeeEeeeeeeeEEeE"

TRANSFER_GAS == 21000

CONTRACT_GAS == 200000

\* gwei in one tick (10^-5 ether = 10^4 gwei)
GweiPerTick == 10000

(***************************************************************************)
(* Bounds of the model                                                     *)
(***************************************************************************)
\* perform_action calls made by one thread
MaxCalls == 2

\* worker threads that may run perform_action (asyncio.to_thread)
Threads == {"w1", "w2"}

\* the worker that makes the calls when calls do not overlap
SeqThreads == {"w1"}

(***************************************************************************)
(* Values                                                                  *)
(***************************************************************************)
\* a key that is not in the kwargs dictionary
Absent == [tag |-> "absent", s |-> "", n |-> 0]

Text(str) == [tag |-> "text", s |-> str, n |-> 0]

Num(i) == [tag |-> "num", s |-> "", n |-> i]

\* addresses a caller may pass: a well-formed checksummed address, 40 hex
\* digits in mixed case whose checksum is wrong, and a string that is not
\* 40 hex digits at all
ADDR_OK == "0x06A8307922cAdcfD5d4489cF69030CA96E823145"

ADDR_BADSUM == "0x06a8307922CADCFD5d4489cF69030CA96E823145"

ADDR_MALFORMED == "0xabc"

\* a token contract other than the native sentinel
ERC20_TOKEN == "0xb5b74D0C89C936f9a5c8885Bf59f1DAd96ECaaB0"

\* the address of the account derived from the configured key
ACCOUNT == "0x5aAeb6053F3E94C9b9A09f33669435E7Ef1BeAed"

AddressInputs == {ADDR_OK, ADDR_BADSUM, ADDR_MALFORMED}

TokenInputs == {NATIVE_TOKEN, ERC20_TOKEN, ADDR_MALFORMED, ""}

\* amounts in ticks: -1.0, 0, 1.5
AmountInputs == {-100000, 0, 150000}

\* balances in ticks: 0, 1.0, 1.5, 1.50105, 10
BalanceInputs == {0, 100000, 150000, 150105, 1000000}

\* a string is syntactically an address: 40 hex digits, 0x optional
IsHexAddress(a) == a \in {ADDR_OK, ADDR_BADSUM, NATIVE_TOKEN, ERC20_TOKEN, ACCOUNT}

\* Web3.is_address: a hex address whose checksum, when it is written in
\* mixed case, is right
IsAddress(a) == IsHexAddress(a) /\ a # ADDR_BADSUM

\* Web3.to_checksum_address lowercases before it validates, so it accepts
\* every hex address and raises ValueError on anything else
ToChecksumNeverRaises(a) == FALSE

ToChecksumRaises(a) == ~IsHexAddress(a)

ToChecksumAddress(a) == IF a = ADDR_BADSUM THEN ADDR_OK ELSE a

\* str.lower() compared with NATIVE_TOKEN.lower()
IsNativeSentinel(a) == a = NATIVE_TOKEN

Contains(s, x) == \E i \in 1..Len(s) : s[i] = x

NoExc == [type |-> "", msg |-> "", nums |-> <<>>, items |-> <<>>, action |-> "", cause |-> <<>>]

Exc(type, msg) == [NoExc EXCEPT !.type = type, !.msg = msg]

NoValue == [text |-> "", host |-> "", tx |-> 0, nums |-> <<>>, decoys |-> <<>>]

Value(text) == [NoValue EXCEPT !.text = text]

NoResult == [kind |-> "none", exc |-> NoExc, value |-> NoValue]

Raised(e) == [kind |-> "raise", exc |-> e, value |-> NoValue]

Returned(v) == [kind |-> "return", exc |-> NoExc, value |-> v]

NoTx == [kind |-> "none", from |-> "", nonce |-> -1, to |-> "", value |-> 0, gas |-> 0,
         gasPrice |-> -1, chainId |-> -1, arg_to |-> "", arg_amount |-> 0]

(***************************************************************************)
(* Action registry (register_actions)                                      *)
(***************************************************************************)
ActionParameter(name, required, type) == [name |-> name, required |-> required, type |-> type]

register_actions ==
    [n \in {"get-balance", "transfer", "get-address", "deposit-funds",
            "execute-private-payment", "generate-ai-decoys", "get-privacy-score",
            "get-privacy-metrics", "get-global-stats", "withdraw-funds",
            "get-contract-info"} |->
       CASE n = "get-balance" -> <<ActionParameter("token_address", FALSE, "str")>>
         [] n = "transfer" -> <<ActionParameter("to_address", TRUE, "str"),
                                ActionParameter("amount", TRUE, "float"),
                                ActionParameter("token_address", FALSE, "str")>>
         [] n = "get-address" -> <<>>
         [] n = "deposit-funds" -> <<ActionParameter("amount", TRUE, "float")>>
         [] n = "execute-private-payment" -> <<ActionParameter("recipient", TRUE, "str"),
                                               ActionParameter("amount", TRUE, "float"),
                                               ActionParameter("memo", FALSE, "str"),
                                               ActionParameter("decoy_count", FALSE, "int")>>
         [] n = "generate-ai-decoys" -> <<ActionParameter("amount", TRUE, "float"),
                                          ActionParameter("count", FALSE, "int")>>
         [] n = "get-privacy-score" -> <<ActionParameter("user_address", FALSE, "str")>>
         [] n = "get-privacy-metrics" -> <<ActionParameter("user_address", FALSE, "str")>>
         [] n = "get-global-stats" -> <<>>
         [] n = "withdraw-funds" -> <<ActionParameter("amount", TRUE, "float")>>
         [] n = "get-contract-info" -> <<>>]

ParamNames == {"to_address", "amount", "token_address", "recipient", "memo",
               "decoy_count", "count", "user_address"}

NoKwargs == [p \in ParamNames |-> Absent]

\* action names a caller may send: the registered ones and two that are not
UnknownNames == {"transfer_funds", "get_balance"}

\* param.type(value): str() accepts everything; float() and int() raise
\* ValueError on a string that is not a number
ConvertRaises(type, v) == type \in {"float", "int"} /\ v.tag = "text"

\* Action.validate_params: one message per declared parameter that is
\* required and missing, or present and not convertible to its type
RECURSIVE validate_from(_, _, _)
validate_from(params, kwargs, i) ==
    IF i > Len(params) THEN <<>>
    ELSE LET p == params[i]
             here == IF p.required /\ kwargs[p.name].tag = "absent"
                        THEN << <<"Missing required parameter", p.name>> >>
                     ELSE IF kwargs[p.name].tag # "absent" /\ ConvertRaises(p.type, kwargs[p.name])
                        THEN << <<"Invalid type for", p.name>> >>
                     ELSE <<>>
         IN here \o validate_from(params, kwargs, i + 1)

validate_params(params, kwargs) == validate_from(params, kwargs, 1)

\* ', '.join(errors): the errors in order, ", " between neighbours
JoinFirstOnly(errors) == IF errors = <<>> THEN <<>> ELSE <<errors[1]>>

RECURSIVE Join(_)
Join(errors) ==
    IF Len(errors) <= 1 THEN errors
    ELSE <<Head(errors), <<", ">> >> \o Join(Tail(errors))

(***************************************************************************)
(* State                                                                   *)
(***************************************************************************)
VARIABLES
    actions,        \* self.actions
    private_key,    \* os.environ['MONAD_PRIVATE_KEY']: "absent", "malformed", "ok"
    connected,      \* what the chain client's is_connected() reports
    native_balance, \* the account's native balance on chain, in ticks
    token_balance,  \* the account's balance of ERC20_TOKEN, in ticks
    tx_count,       \* the account's transaction count on chain
    submitted,      \* transactions accepted by send_raw_transaction
    call,           \* per thread: the perform_action call in progress
    boot,           \* the construction of the connection (_initialize_web3)
    server          \* ServerState: the agent loop flag, event and threads

vars == <<actions, private_key, connected, native_balance, token_balance,
          tx_count, submitted, call, boot, server>>

env == <<private_key, connected, native_balance, token_balance>>

chain == <<tx_count, submitted>>

IdleCall ==
    [phase |-> "idle", pc |-> "idle", call_no |-> 0,
     action_name |-> "", kwargs |-> NoKwargs,
     trace |-> <<>>,            \* phases this call has been in
     vcalls |-> <<>>,           \* chain-client calls made by is_configured
     verrors |-> <<>>,          \* those of them that raised
     earlier |-> <<>>,          \* how the caller's earlier calls ended
     ocalls |-> <<>>,           \* chain-client calls made by the operation
     validator_runs |-> 0, validations |-> 0, invocations |-> 0, signs |-> 0,
     configured |-> "unknown",  \* what is_configured returned to this call
     errors |-> <<>>,           \* what validate_params returned to this call
     balance_checked |-> FALSE, \* transfer has compared balance and requirement
     total_required |-> 0, current_balance |-> 0, balance_query_ok |-> FALSE,
     nonce |-> -1, tx |-> NoTx,
     chain_errors |-> <<>>,     \* chain-client calls of the operation that failed
     tx_count_at_start |-> 0,   \* the chain's transaction count when the call began
     submitted_at_start |-> 0,  \* how many transactions the chain held then
     op_result |-> NoResult, result |-> NoResult]

\* the connection before __init__ has run
NewBoot == [pc |-> "new", attempt |-> 0, attempts |-> 0, sleeps |-> 0,
            history |-> <<>>, error |-> NoExc]

\* a connection whose construction succeeded at the first attempt
Booted == [NewBoot EXCEPT !.pc = "connected", !.attempts = 1, !.history = <<"ok">>]

\* agent-loop threads the server may create
MaxLoopThreads == 2

LoopThreads == 1..MaxLoopThreads

\* ServerState.__init__: no loop thread, flag down, event clear
NewServer ==
    [agent_running |-> FALSE,
     stop_event |-> FALSE,
     agent_task |-> 0,                           \* 0 is None
     loop |-> [i \in LoopThreads |-> "none"],     \* where each loop thread is
     log_once |-> [i \in LoopThreads |-> FALSE], \* each thread's log_once
     stop_pc |-> "idle",                         \* stop_agent_loop in progress
     stopped |-> {},                             \* threads a stop was aimed at
     last |-> ""]                                \* how the last request ended

\* the process environment and the chain, whatever the connection does
EnvInit ==
    /\ server = NewServer
    /\ actions = register_actions
    /\ private_key \in {"absent", "malformed", "ok"}
    /\ connected \in BOOLEAN
    /\ native_balance \in BalanceInputs
    /\ token_balance \in {0, 150000}
    /\ tx_count = 0
    /\ submitted = <<>>
    /\ call = [t \in Threads |-> IdleCall]

\* the state after construction
Init ==
    /\ EnvInit
    /\ boot = Booted

Set(t, r) == call' = [call EXCEPT ![t] = r]

\* the call enters a phase
Enter(c, phase) == [c EXCEPT !.phase = phase, !.trace = Append(@, phase)]

\* the call ends by raising e
Fail(c, e) == [Enter(c, "failed") EXCEPT !.pc = "done", !.result = Raised(e)]

(***************************************************************************)
(* Inputs of perform_action                                                *)
(***************************************************************************)
AmountArgs == {Absent, Text("abc")} \cup {Num(a) : a \in AmountInputs}

AddressArgs == {Absent} \cup {Text(a) : a \in AddressInputs}

TokenArgs == {Absent} \cup {Text(a) : a \in TokenInputs}

InputsFor(name) ==
    CASE name = "transfer" ->
           {[NoKwargs EXCEPT !["to_address"] = a, !["amount"] = m, !["token_address"] = k] :
               a \in AddressArgs, m \in AmountArgs, k \in TokenArgs}
      [] name = "execute-private-payment" ->
           {[NoKwargs EXCEPT !["recipient"] = a, !["amount"] = m, !["decoy_count"] = d] :
               a \in AddressArgs, m \in AmountArgs, d \in {Absent, Text("many"), Num(2), Num(5)}}
      [] name = "get-balance" ->
           {[NoKwargs EXCEPT !["token_address"] = k] : k \in TokenArgs}
      [] name \in {"deposit-funds", "withdraw-funds"} ->
           {[NoKwargs EXCEPT !["amount"] = m] : m \in AmountArgs}
      [] name = "generate-ai-decoys" ->
           {[NoKwargs EXCEPT !["amount"] = m, !["count"] = d] :
               m \in AmountArgs, d \in {Absent, Num(0), Num(3)}}
      [] name \in {"get-privacy-score", "get-privacy-metrics"} ->
           {[NoKwargs EXCEPT !["user_address"] = a] : a \in AddressArgs}
      [] OTHER -> {NoKwargs}

(***************************************************************************)
(* Account resolver and connection validator                               *)
(***************************************************************************)
\* _get_current_account: the exception it raises, NoExc when it returns
get_current_account_exc ==
    IF private_key = "absent" THEN Exc("MonadConnectionError", "No wallet private key configured")
    ELSE IF private_key = "malformed" THEN Exc("ValueError", "from_key rejected the private key")
    ELSE NoExc

\* line 212: every non-empty key is handed to eth.account.from_key
from_key_invoked == private_key # "absent"

\* a validator that asks the chain client before it looks for the key
is_configured_client_first(balance_ok) ==
    IF ~connected THEN [ret |-> FALSE, calls |-> <<"is_connected">>, errs |-> <<>>]
    ELSE IF get_current_account_exc # NoExc
       THEN [ret |-> FALSE, calls |-> <<"is_connected">>, errs |-> <<>>]
    ELSE IF ~balance_ok
       THEN [ret |-> FALSE, calls |-> <<"is_connected", "get_balance">>,
             errs |-> <<"get_balance">>]
    ELSE [ret |-> TRUE, calls |-> <<"is_connected", "get_balance">>, errs |-> <<>>]

\* is_configured; balance_ok says whether the balance query succeeds.  calls
\* are the chain-client calls it makes, errs those of them that raised (every
\* exception is caught and answered by False)
is_configured(balance_ok) ==
    IF private_key = "absent" THEN [ret |-> FALSE, calls |-> <<>>, errs |-> <<>>]
    ELSE IF ~connected THEN [ret |-> FALSE, calls |-> <<"is_connected">>, errs |-> <<>>]
    ELSE IF get_current_account_exc # NoExc
       THEN [ret |-> FALSE, calls |-> <<"is_connected">>, errs |-> <<>>]
    ELSE IF ~balance_ok
       THEN [ret |-> FALSE, calls |-> <<"is_connected", "get_balance">>,
             errs |-> <<"get_balance">>]
    ELSE [ret |-> TRUE, calls |-> <<"is_connected", "get_balance">>, errs |-> <<>>]

(***************************************************************************)
(* perform_action                                                          *)
(***************************************************************************)
\* action_name.replace('-', '_')
MethodName(name) ==
    CASE name = "get-balance" -> "get_balance"
      [] name = "transfer" -> "transfer"
      [] name = "get-address" -> "get_address"
      [] name = "deposit-funds" -> "deposit_funds"
      [] name = "execute-private-payment" -> "execute_private_payment"
      [] name = "generate-ai-decoys" -> "generate_ai_decoys"
      [] name = "get-privacy-score" -> "get_privacy_score"
      [] name = "get-privacy-metrics" -> "get_privacy_metrics"
      [] name = "get-global-stats" -> "get_global_stats"
      [] name = "withdraw-funds" -> "withdraw_funds"
      [] name = "get-contract-info" -> "get_contract_info"
      [] OTHER -> name

\* a class on which withdraw_funds is not defined
MethodsWithoutWithdraw ==
    {"get_balance", "transfer", "get_address", "deposit_funds",
     "execute_private_payment", "generate_ai_decoys", "get_privacy_score",
     "get_privacy_metrics", "get_global_stats", "get_contract_info"}

\* the operations defined on MonadConnection
Methods == {"get_balance", "transfer", "get_address", "deposit_funds",
            "execute_private_payment", "generate_ai_decoys", "get_privacy_score",
            "get_privacy_metrics", "get_global_stats", "withdraw_funds",
            "get_contract_info"}

\* a caller hands an action name and kwargs to perform_action
Receive(t) ==
    /\ call[t].phase \in {"idle", "completed", "failed"}
    /\ call[t].call_no < MaxCalls
    /\ \E name \in DOMAIN register_actions \cup UnknownNames :
         \E kw \in InputsFor(name) :
            Set(t, [Enter(IdleCall, "received") EXCEPT
                       !.pc = "lookup", !.call_no = call[t].call_no + 1,
                       !.tx_count_at_start = tx_count,
                       !.submitted_at_start = Len(submitted),
                       !.action_name = name, !.kwargs = kw])
    /\ UNCHANGED <<server, actions, boot, env, chain>>

\* a lookup that enters the unknown name into the registry (setdefault)
LookupRegistering(t) ==
    LET c == call[t] IN
    /\ c.pc = "lookup"
    /\ IF c.action_name \notin DOMAIN actions
          THEN /\ Set(t, Fail(c, [Exc("KeyError", "Unknown action") EXCEPT !.action = c.action_name]))
               /\ actions' = [n \in DOMAIN actions \cup {c.action_name} |->
                                 IF n \in DOMAIN actions THEN actions[n] ELSE <<>>]
          ELSE /\ Set(t, [c EXCEPT !.pc = "is_configured"])
               /\ UNCHANGED actions
    /\ UNCHANGED <<server, boot, env, chain>>

\* if action_name not in self.actions: raise KeyError
LookupAfterValidator(t) ==
    LET c == call[t]
        v == is_configured(TRUE)
        ran == [c EXCEPT !.validator_runs = @ + 1, !.vcalls = @ \o v.calls,
                         !.verrors = @ \o v.errs,
                         !.configured = IF v.ret THEN "true" ELSE "false"]
    IN
    /\ c.pc = "lookup"
    /\ IF c.action_name \notin DOMAIN actions
          THEN Set(t, Fail(ran, [Exc("KeyError", "Unknown action") EXCEPT !.action = c.action_name]))
          ELSE Set(t, [c EXCEPT !.pc = "is_configured"])
    /\ UNCHANGED <<server, actions, boot, env, chain>>

Lookup(t) ==
    LET c == call[t] IN
    /\ c.pc = "lookup"
    /\ IF c.action_name \notin DOMAIN actions
          THEN Set(t, Fail(c, [Exc("KeyError", "Unknown action") EXCEPT !.action = c.action_name]))
          ELSE Set(t, [c EXCEPT !.pc = "is_configured"])
    /\ UNCHANGED <<server, actions, boot, env, chain>>

\* if not self.is_configured(verbose=True): raise MonadConnectionError
CheckConfiguredCached(t) ==
    LET c == call[t] IN
    /\ c.pc = "is_configured"
    /\ \E balance_ok \in BOOLEAN :
         LET v == IF Contains(c.earlier, "completed")
                     THEN [ret |-> TRUE, calls |-> <<>>, errs |-> <<>>]
                     ELSE is_configured(balance_ok)
             ran == [c EXCEPT !.validator_runs = @ + 1, !.vcalls = @ \o v.calls,
                              !.verrors = @ \o v.errs,
                              !.configured = IF v.ret THEN "true" ELSE "false"]
         IN IF v.ret
               THEN Set(t, [Enter(ran, "configuration_checked") EXCEPT !.pc = "validate"])
               ELSE Set(t, Fail(ran, Exc("MonadConnectionError",
                                         "Monad connection is not properly configured")))
    /\ UNCHANGED <<server, actions, boot, env, chain>>

CheckConfiguredIgnored(t) ==
    LET c == call[t] IN
    /\ c.pc = "is_configured"
    /\ \E balance_ok \in BOOLEAN :
         LET v == is_configured(balance_ok)
             ran == [c EXCEPT !.validator_runs = @ + 1, !.vcalls = @ \o v.calls,
                         !.verrors = @ \o v.errs,
                              !.configured = IF v.ret THEN "true" ELSE "false"]
         IN Set(t, [Enter(ran, "configuration_checked") EXCEPT !.pc = "validate"])
    /\ UNCHANGED <<server, actions, boot, env, chain>>

CheckConfigured(t) ==
    LET c == call[t] IN
    /\ c.pc = "is_configured"
    /\ \E balance_ok \in BOOLEAN :
         LET v == is_configured(balance_ok)
             ran == [c EXCEPT !.validator_runs = @ + 1, !.vcalls = @ \o v.calls,
                         !.verrors = @ \o v.errs,
                              !.configured = IF v.ret THEN "true" ELSE "false"]
         IN IF v.ret
               THEN Set(t, [Enter(ran, "configuration_checked") EXCEPT !.pc = "validate"])
               ELSE Set(t, Fail(ran, Exc("MonadConnectionError",
                                         "Monad connection is not properly configured")))
    /\ UNCHANGED <<server, actions, boot, env, chain>>

\* errors = action.validate_params(kwargs); if errors: raise ValueError
ValidateParams(t) ==
    LET c == call[t]
        decl == actions[c.action_name]
        errors == validate_params(decl, c.kwargs)
        ran == [c EXCEPT !.validations = @ + 1, !.errors = errors]
    IN
    /\ c.pc = "validate"
    /\ IF errors # <<>>
          THEN Set(t, Fail(ran, [Exc("ValueError", "Invalid parameters") EXCEPT
                                    !.items = Join(errors)]))
          ELSE Set(t, [Enter(ran, "params_validated") EXCEPT !.pc = "invoke"])
    /\ UNCHANGED <<server, actions, boot, env, chain>>

\* method = getattr(self, method_name); method(**kwargs)
Invoke(t) ==
    LET c == call[t]
        method_name == MethodName(c.action_name)
    IN
    /\ c.pc = "invoke"
    /\ IF method_name \notin Methods
          THEN Set(t, Fail(c, Exc("AttributeError", method_name)))
          ELSE Set(t, [Enter(c, "executing") EXCEPT !.pc = method_name, !.invocations = @ + 1])
    /\ UNCHANGED <<server, actions, boot, env, chain>>

\* the operation ends: it returns v or raises e
OpReturn(c, v) == [c EXCEPT !.pc = "op_done", !.op_result = Returned(v)]

OpRaise(c, e) == [c EXCEPT !.pc = "op_done", !.op_result = Raised(e)]

\* try: return method(**kwargs) / except Exception: log; raise
FinishCallRetry(c) ==
    IF c.op_result.kind = "raise"
       THEN [c EXCEPT !.pc = "invoke", !.op_result = NoResult]
       ELSE [Enter(c, "completed") EXCEPT !.pc = "done", !.result = Returned(c.op_result.value)]

FinishCallSwallow(c) ==
    IF c.op_result.kind = "raise"
       THEN [Enter(c, "completed") EXCEPT !.pc = "done", !.result = Returned(NoValue)]
       ELSE [Enter(c, "completed") EXCEPT !.pc = "done", !.result = Returned(c.op_result.value)]

FinishCall(c) ==
    IF c.op_result.kind = "raise"
       THEN Fail(c, c.op_result.exc)
       ELSE [Enter(c, "completed") EXCEPT !.pc = "done", !.result = Returned(c.op_result.value)]

Finish(t) ==
    /\ call[t].pc = "op_done"
    /\ Set(t, FinishCall(call[t]))
    /\ UNCHANGED <<server, actions, boot, env, chain>>

(***************************************************************************)
(* Chain-client conversions                                                *)
(***************************************************************************)
\* Web3.to_wei(x, 'gwei') followed by from_wei(.., 'ether'): gwei to ticks
GweiToEther(gwei) == gwei \div GweiPerTick

\* to_wei(amount, 'ether'): the amount in the unit transactions carry.  The
\* model counts transaction values in gwei, 10^4 to the tick.
to_wei(amount) == amount * GweiPerTick

\* to_wei(amount, 'ether') raises ValueError on a negative amount
ToWeiRaises(amount) == amount < 0

\* gas the chain client estimates for a token transfer call
ESTIMATED_GAS == 60000

(***************************************************************************)
(* get_balance                                                             *)
(***************************************************************************)
\* get_balance(token_address); token is Absent for None.  fail_at is the
\* index of the chain call that fails (0: none fails).  Every exception is
\* caught and turned into the return value 0.
get_balance(token, fail_at) ==
    IF get_current_account_exc # NoExc
       THEN [ret |-> 0, calls |-> <<>>, ok |-> FALSE, errs |-> <<>>]
    ELSE IF token.tag = "absent" \/ IsNativeSentinel(token.s)
       THEN IF fail_at = 1
               THEN [ret |-> 0, calls |-> <<"get_balance">>, ok |-> FALSE,
                     errs |-> <<"get_balance">>]
               ELSE [ret |-> native_balance, calls |-> <<"get_balance">>, ok |-> TRUE,
                     errs |-> <<>>]
    ELSE IF ToChecksumRaises(token.s)
       THEN [ret |-> 0, calls |-> <<>>, ok |-> FALSE, errs |-> <<>>]
    ELSE IF fail_at = 1
       THEN [ret |-> 0, calls |-> <<"decimals">>, ok |-> FALSE, errs |-> <<"decimals">>]
    ELSE IF fail_at = 2
       THEN [ret |-> 0, calls |-> <<"decimals", "balanceOf">>, ok |-> FALSE,
             errs |-> <<"balanceOf">>]
    ELSE [ret |-> token_balance, calls |-> <<"decimals", "balanceOf">>, ok |-> TRUE,
          errs |-> <<>>]

(***************************************************************************)
(* transfer                                                                *)
(***************************************************************************)
\* gas_cost_eth = from_wei(to_wei(MONAD_BASE_GAS_PRICE * 21000, 'gwei'), 'ether')
gas_cost_eth == GweiToEther(MONAD_BASE_GAS_PRICE * TRANSFER_GAS)

\* the balance the transfer requires
total_required_of(amount, token) ==
    IF token.tag = "absent" THEN amount + gas_cost_eth ELSE amount

\* if token_address and token_address.lower() != self.NATIVE_TOKEN.lower()
IsTokenBranch(token) == token.tag # "absent" /\ token.s # "" /\ ~IsNativeSentinel(token.s)

\* if current_balance < total_required: raise ValueError
insufficient_le(current_balance, total_required) == current_balance <= total_required

insufficient(current_balance, total_required) == current_balance < total_required

\* lines 320-338 with the nonce query moved in front of the comparison
TransferCheckBalanceNonceFirst(t) ==
    LET c == call[t]
        amount == c.kwargs["amount"].n
        token == c.kwargs["token_address"]
    IN
    /\ c.pc = "transfer"
    /\ IF get_current_account_exc # NoExc
          THEN Set(t, OpRaise(c, get_current_account_exc))
          ELSE \E fail_at \in 0..2 :
                 LET total_required == total_required_of(amount, token)
                     b == get_balance(token, fail_at)
                     c1 == [c EXCEPT !.balance_checked = TRUE,
                                     !.total_required = total_required,
                                     !.current_balance = b.ret,
                                     !.balance_query_ok = b.ok,
                                     !.chain_errors = @ \o b.errs,
                                     !.nonce = tx_count,
                                     !.ocalls = @ \o b.calls \o <<"get_transaction_count">>]
                 IN IF insufficient(b.ret, total_required)
                       THEN Set(t, OpRaise(c1, [Exc("ValueError", "Insufficient balance") EXCEPT
                                                  !.nums = <<total_required, b.ret>>]))
                       ELSE Set(t, [c1 EXCEPT !.pc = "transfer_build"])
    /\ UNCHANGED <<server, actions, boot, env, chain>>

\* lines 320-335: resolve the account, compute the requirement, query the
\* balance and compare
TransferCheckBalance(t) ==
    LET c == call[t]
        amount == c.kwargs["amount"].n
        token == c.kwargs["token_address"]
    IN
    /\ c.pc = "transfer"
    /\ IF get_current_account_exc # NoExc
          THEN Set(t, OpRaise(c, get_current_account_exc))
          ELSE \E fail_at \in 0..2 :
                 LET total_required == total_required_of(amount, token)
                     b == get_balance(token, fail_at)
                     c1 == [c EXCEPT !.balance_checked = TRUE,
                                     !.total_required = total_required,
                                     !.current_balance = b.ret,
                                     !.balance_query_ok = b.ok,
                                     !.chain_errors = @ \o b.errs,
                                     !.ocalls = @ \o b.calls]
                 IN IF insufficient(b.ret, total_required)
                       THEN Set(t, OpRaise(c1, [Exc("ValueError", "Insufficient balance") EXCEPT
                                                  !.nums = <<total_required, b.ret>>]))
                       ELSE Set(t, [c1 EXCEPT !.pc = "transfer_nonce"])
    /\ UNCHANGED <<server, actions, boot, env, chain>>

\* a nonce remembered from the first call instead of read from the chain
TransferFetchNonceCached(t) ==
    LET c == call[t]
        c1 == [c EXCEPT !.ocalls = Append(@, "get_transaction_count")]
    IN
    /\ c.pc = "transfer_nonce"
    /\ \E ok \in BOOLEAN :
         IF ok THEN Set(t, [c1 EXCEPT !.nonce = 0, !.pc = "transfer_build"])
               ELSE Set(t, OpRaise([c1 EXCEPT !.chain_errors = Append(@, "get_transaction_count")],
                                   Exc("RPCError", "get_transaction_count failed")))
    /\ UNCHANGED <<server, actions, boot, env, chain>>

\* line 338: nonce = get_transaction_count(account.address)
TransferFetchNonce(t) ==
    LET c == call[t]
        c1 == [c EXCEPT !.ocalls = Append(@, "get_transaction_count")]
    IN
    /\ c.pc = "transfer_nonce"
    /\ \E ok \in BOOLEAN :
         IF ok THEN Set(t, [c1 EXCEPT !.nonce = tx_count, !.pc = "transfer_build"])
               ELSE Set(t, OpRaise([c1 EXCEPT !.chain_errors = Append(@, "get_transaction_count")],
                                   Exc("RPCError", "get_transaction_count failed")))
    /\ UNCHANGED <<server, actions, boot, env, chain>>

\* lines 339-371: build the transaction and sign it
TransferBuildSign(t) ==
    LET c == call[t]
        amount == c.kwargs["amount"].n
        to_address == c.kwargs["to_address"].s
        token == c.kwargs["token_address"]
        gas_price == MONAD_BASE_GAS_PRICE
    IN
    /\ c.pc = "transfer_build"
    /\ IF IsTokenBranch(token)
          THEN IF ToChecksumRaises(token.s)
                  THEN Set(t, OpRaise(c, Exc("ValueError", "to_checksum_address rejected token_address")))
                  ELSE \E fail_at \in 0..2 :
                         LET c1 == [c EXCEPT !.ocalls = Append(@, "decimals")]
                             c2 == [c1 EXCEPT !.ocalls = Append(@, "estimate_gas")]
                             tx == [kind |-> "erc20", from |-> ACCOUNT, nonce |-> c.nonce,
                                    to |-> ToChecksumAddress(token.s), value |-> 0,
                                    gas |-> ESTIMATED_GAS, gasPrice |-> gas_price,
                                    chainId |-> MONAD_CHAIN_ID,
                                    arg_to |-> ToChecksumAddress(to_address),
                                    arg_amount |-> amount]
                         IN IF fail_at = 1
                               THEN Set(t, OpRaise([c1 EXCEPT !.chain_errors = Append(@, "decimals")],
                                                   Exc("RPCError", "decimals failed")))
                            ELSE IF ToChecksumRaises(to_address)
                               THEN Set(t, OpRaise(c1, Exc("ValueError", "to_checksum_address rejected to_address")))
                            ELSE IF amount < 0
                               THEN Set(t, OpRaise(c1, Exc("ValueError", "negative uint256 argument")))
                            ELSE IF fail_at = 2
                               THEN Set(t, OpRaise([c2 EXCEPT !.chain_errors = Append(@, "estimate_gas")],
                                                   Exc("RPCError", "estimate_gas failed")))
                            ELSE Set(t, [c2 EXCEPT !.tx = tx, !.signs = @ + 1, !.pc = "transfer_send"])
          ELSE LET tx == [kind |-> "native", from |-> ACCOUNT, nonce |-> c.nonce,
                          to |-> ToChecksumAddress(to_address), value |-> to_wei(amount),
                          gas |-> TRANSFER_GAS, gasPrice |-> gas_price,
                          chainId |-> MONAD_CHAIN_ID, arg_to |-> "", arg_amount |-> 0]
               IN IF ToChecksumRaises(to_address)
                     THEN Set(t, OpRaise(c, Exc("ValueError", "to_checksum_address rejected to_address")))
                  ELSE IF ToWeiRaises(amount)
                     THEN Set(t, OpRaise(c, Exc("ValueError", "to_wei rejected the amount")))
                  ELSE Set(t, [c EXCEPT !.tx = tx, !.signs = @ + 1, !.pc = "transfer_send"])
    /\ UNCHANGED <<server, actions, boot, env, chain>>

\* https://{scanner_url}/tx/{tx_hash}
get_explorer_link_stale(v, tx_hash) == [v EXCEPT !.host = MONAD_SCANNER_URL, !.tx = tx_hash - 1]

get_explorer_link(v, tx_hash) == [v EXCEPT !.host = MONAD_SCANNER_URL, !.tx = tx_hash]

\* lines 372-375: submit the signed transaction and return its explorer link
TransferSend(t) ==
    LET c == call[t]
        c1 == [c EXCEPT !.ocalls = Append(@, "send_raw_transaction")]
        tx_hash == Len(submitted) + 1
    IN
    /\ c.pc = "transfer_send"
    /\ \E ok \in BOOLEAN :
         IF ok
            THEN /\ submitted' = Append(submitted, c.tx)
                 /\ tx_count' = tx_count + 1
                 /\ Set(t, OpReturn(c1, get_explorer_link(Value("Transaction sent"), tx_hash)))
            ELSE /\ Set(t, OpRaise([c1 EXCEPT !.chain_errors = Append(@, "send_raw_transaction")],
                                    Exc("RPCError", "send_raw_transaction failed")))
                 /\ UNCHANGED chain
    /\ UNCHANGED <<server, actions, boot, env>>

(***************************************************************************)
(* The other operations                                                    *)
(***************************************************************************)
\* the get-balance action
GetBalance(t) ==
    LET c == call[t] IN
    /\ c.pc = "get_balance"
    /\ \E fail_at \in 0..2 :
         LET b == get_balance(c.kwargs["token_address"], fail_at)
         IN Set(t, OpReturn([c EXCEPT !.ocalls = @ \o b.calls, !.chain_errors = @ \o b.errs],
                            [Value("balance") EXCEPT !.nums = <<b.ret>>]))
    /\ UNCHANGED <<server, actions, boot, env, chain>>

\* get_address: a failure of the account resolver is returned as a string
GetAddress(t) ==
    LET c == call[t] IN
    /\ c.pc = "get_address"
    /\ IF get_current_account_exc # NoExc
          THEN Set(t, OpReturn(c, Value("Failed to get address")))
          ELSE Set(t, OpReturn(c, [Value("Your Monad address") EXCEPT !.host = ACCOUNT]))
    /\ UNCHANGED <<server, actions, boot, env, chain>>

\* the transaction deposit_funds and withdraw_funds build
contract_tx_no_chain_id(kind, amount, nonce) ==
    [kind |-> kind, from |-> ACCOUNT, nonce |-> nonce,
     to |-> "0x06A8307922cAdcfD5d4489cF69030CA96E823145",
     value |-> IF kind = "deposit" THEN to_wei(amount) ELSE 0,
     gas |-> CONTRACT_GAS, gasPrice |-> MONAD_BASE_GAS_PRICE, chainId |-> -1,
     arg_to |-> "", arg_amount |-> IF kind = "withdraw" THEN to_wei(amount) ELSE 0]

contract_tx(kind, amount, nonce) ==
    [kind |-> kind, from |-> ACCOUNT, nonce |-> nonce,
     to |-> "0x06A8307922cAdcfD5d4489cF69030CA96E823145",
     value |-> IF kind = "deposit" THEN to_wei(amount) ELSE 0,
     gas |-> CONTRACT_GAS, gasPrice |-> MONAD_BASE_GAS_PRICE, chainId |-> MONAD_CHAIN_ID,
     arg_to |-> "", arg_amount |-> IF kind = "withdraw" THEN to_wei(amount) ELSE 0]

\* the mock hash "0x" + sha256(...) stands for no submitted transaction
MOCK_TX_HASH == 0

\* deposit_funds: every exception is caught and answered by a simulated result
DepositFunds(t) ==
    LET c == call[t]
        amount == c.kwargs["amount"].n
        demo == get_explorer_link(Value("[DEMO] Deposit simulated"), MOCK_TX_HASH)
        c1 == [c EXCEPT !.ocalls = Append(@, "get_transaction_count")]
        c2 == [c1 EXCEPT !.signs = @ + 1, !.tx = contract_tx("deposit", amount, tx_count),
                         !.nonce = tx_count,
                         !.ocalls = Append(@, "send_raw_transaction")]
    IN
    /\ c.pc = "deposit_funds"
    /\ IF amount <= 0 \/ get_current_account_exc # NoExc
          THEN Set(t, OpReturn(c, demo)) /\ UNCHANGED chain
          ELSE \E fail_at \in 0..2 :
                 IF fail_at = 1
                    THEN Set(t, OpReturn([c1 EXCEPT !.chain_errors = <<"get_transaction_count">>], demo))
                         /\ UNCHANGED chain
                 ELSE IF fail_at = 2
                    THEN Set(t, OpReturn([c2 EXCEPT !.chain_errors = <<"send_raw_transaction">>], demo))
                         /\ UNCHANGED chain
                 ELSE /\ Set(t, OpReturn(c2, get_explorer_link(Value("Deposit successful"),
                                                               Len(submitted) + 1)))
                      /\ submitted' = Append(submitted, c2.tx)
                      /\ tx_count' = tx_count + 1
    /\ UNCHANGED <<server, actions, boot, env>>

\* withdraw_funds: a non-positive amount raises; a failure of the chain
\* steps is answered by a simulated result
WithdrawFunds(t) ==
    LET c == call[t]
        amount == c.kwargs["amount"].n
        demo == get_explorer_link(Value("[DEMO] Withdrawal simulated"), MOCK_TX_HASH)
        c1 == [c EXCEPT !.ocalls = Append(@, "get_transaction_count")]
        c2 == [c1 EXCEPT !.signs = @ + 1, !.tx = contract_tx("withdraw", amount, tx_count),
                         !.nonce = tx_count,
                         !.ocalls = Append(@, "send_raw_transaction")]
    IN
    /\ c.pc = "withdraw_funds"
    /\ IF amount <= 0
          THEN Set(t, OpRaise(c, Exc("ValueError", "Amount must be greater than 0")))
               /\ UNCHANGED chain
       ELSE IF get_current_account_exc # NoExc
          THEN Set(t, OpReturn(c, demo)) /\ UNCHANGED chain
          ELSE \E fail_at \in 0..2 :
                 IF fail_at = 1
                    THEN Set(t, OpReturn([c1 EXCEPT !.chain_errors = <<"get_transaction_count">>], demo))
                         /\ UNCHANGED chain
                 ELSE IF fail_at = 2
                    THEN Set(t, OpReturn([c2 EXCEPT !.chain_errors = <<"send_raw_transaction">>], demo))
                         /\ UNCHANGED chain
                 ELSE /\ Set(t, OpReturn(c2, get_explorer_link(Value("Withdrawal successful"),
                                                               Len(submitted) + 1)))
                      /\ submitted' = Append(submitted, c2.tx)
                      /\ tx_count' = tx_count + 1
    /\ UNCHANGED <<server, actions, boot, env>>

\* _generate_simple_decoys: the loop builds a decoy count times and never
\* appends it to the list it returns
RECURSIVE generate_simple_decoys_from(_, _, _)
generate_simple_decoys_from(decoys, i, count) ==
    IF i >= count THEN decoys
    ELSE generate_simple_decoys_from(decoys, i + 1, count)

generate_simple_decoys(real_amount, count) == generate_simple_decoys_from(<<>>, 0, count)

\* _calculate_privacy_impact: int(2 + decoy_count * 1.5 + min(amount * 0.5, 5)),
\* amount in ticks
calculate_privacy_impact(decoy_count, amount) ==
    LET half == IF amount < 1000000 THEN amount ELSE 1000000
        twice == 400000 + 300000 * decoy_count + half
    IN IF twice >= 0 THEN twice \div 200000 ELSE -((-twice) \div 200000)

\* decoy_count as the operation sees it: the default 4 when it is not
\* passed or out of the range 3..8
effective_decoy_count(arg) ==
    IF arg.tag = "absent" THEN 4
    ELSE IF arg.n < 3 \/ arg.n > 8 THEN 4
    ELSE arg.n

\* execute_private_payment
ExecutePrivatePayment(t) ==
    LET c == call[t]
        recipient == c.kwargs["recipient"].s
        amount == c.kwargs["amount"].n
        decoy_count == effective_decoy_count(c.kwargs["decoy_count"])
        decoys == generate_simple_decoys(amount, decoy_count)
    IN
    /\ c.pc = "execute_private_payment"
    /\ IF ~IsAddress(recipient)
          THEN Set(t, OpRaise(c, Exc("ValueError", "Invalid recipient address")))
       ELSE IF amount <= 0
          THEN Set(t, OpRaise(c, Exc("ValueError", "Amount must be greater than 0")))
       ELSE Set(t, OpReturn(c, [Value("Private payment executed") EXCEPT
                                  !.nums = <<Len(decoys), calculate_privacy_impact(decoy_count, amount)>>]))
    /\ UNCHANGED <<server, actions, boot, env, chain>>

\* generate_ai_decoys(amount, count=4)
GenerateAiDecoys(t) ==
    LET c == call[t]
        count == IF c.kwargs["count"].tag = "absent" THEN 4 ELSE c.kwargs["count"].n
        decoys == generate_simple_decoys(c.kwargs["amount"].n, count)
    IN
    /\ c.pc = "generate_ai_decoys"
    /\ Set(t, OpReturn(c, [Value("decoys") EXCEPT !.nums = <<Len(decoys)>>, !.decoys = decoys]))
    /\ UNCHANGED <<server, actions, boot, env, chain>>

\* _get_privacy_rating
get_privacy_rating(score) ==
    IF score >= 95 THEN "Excellent"
    ELSE IF score >= 85 THEN "Very Good"
    ELSE IF score >= 75 THEN "Good"
    ELSE IF score >= 60 THEN "Fair"
    ELSE "Needs Improvement"

\* get_privacy_score: the contract's score, or a random one in 75..98 when
\* the contract call fails
GetPrivacyScore(t) ==
    LET c == call[t]
        arg == c.kwargs["user_address"]
        own == arg.tag = "absent" \/ arg.s = ""
        user_address == IF own THEN ACCOUNT ELSE arg.s
        c1 == [c EXCEPT !.ocalls = Append(@, "calculatePrivacyScore")]
    IN
    /\ c.pc = "get_privacy_score"
    /\ IF own /\ get_current_account_exc # NoExc
          THEN Set(t, OpRaise(c, get_current_account_exc))
       ELSE IF ~IsAddress(user_address)
          THEN Set(t, OpRaise(c, Exc("ValueError", "Invalid user address")))
       ELSE \E score \in {50, 75, 98} :
              Set(t, OpReturn(c1, [Value(get_privacy_rating(score)) EXCEPT
                                     !.host = user_address, !.nums = <<score>>]))
    /\ UNCHANGED <<server, actions, boot, env, chain>>

\* get_privacy_metrics: mock metrics, no chain call
GetPrivacyMetrics(t) ==
    LET c == call[t]
        arg == c.kwargs["user_address"]
        own == arg.tag = "absent" \/ arg.s = ""
    IN
    /\ c.pc = "get_privacy_metrics"
    /\ IF own /\ get_current_account_exc # NoExc
          THEN Set(t, OpRaise(c, get_current_account_exc))
          ELSE \E total_payments \in {5, 50} :
                 Set(t, OpReturn(c, [Value("metrics") EXCEPT
                                       !.host = IF own THEN ACCOUNT ELSE arg.s,
                                       !.nums = <<total_payments>>]))
    /\ UNCHANGED <<server, actions, boot, env, chain>>

\* get_global_stats: the contract's statistics, or random ones
GetGlobalStats(t) ==
    LET c == call[t] IN
    /\ c.pc = "get_global_stats"
    /\ \E total_payments \in {10, 1000} :
         Set(t, OpReturn([c EXCEPT !.ocalls = Append(@, "getGlobalStats")],
                         [Value("stats") EXCEPT !.nums = <<total_payments>>]))
    /\ UNCHANGED <<server, actions, boot, env, chain>>

\* get_contract_info: addresses, chain id and is_connected()
GetContractInfo(t) ==
    LET c == call[t] IN
    /\ c.pc = "get_contract_info"
    /\ Set(t, OpReturn([c EXCEPT !.ocalls = Append(@, "is_connected")],
                       [Value("info") EXCEPT !.nums = <<MONAD_CHAIN_ID, IF connected THEN 1 ELSE 0>>]))
    /\ UNCHANGED <<server, actions, boot, env, chain>>

(***************************************************************************)
(* Specification                                                           *)
(***************************************************************************)
Next ==
    \E t \in SeqThreads :
       \/ Receive(t)
       \/ Lookup(t)
       \/ CheckConfigured(t)
       \/ ValidateParams(t)
       \/ Invoke(t)
       \/ Finish(t)
       \/ TransferCheckBalance(t)
       \/ TransferFetchNonce(t)
       \/ TransferBuildSign(t)
       \/ TransferSend(t)
       \/ GetBalance(t)
       \/ GetAddress(t)
       \/ DepositFunds(t)
       \/ WithdrawFunds(t)
       \/ ExecutePrivatePayment(t)
       \/ GenerateAiDecoys(t)
       \/ GetPrivacyScore(t)
       \/ GetPrivacyMetrics(t)
       \/ GetGlobalStats(t)
       \/ GetContractInfo(t)

Spec == Init /\ [][Next]_vars

(***************************************************************************)
(* Properties of perform_action                                            *)
(***************************************************************************)
Started(c) == c.phase # "idle"

Ended(c) == c.pc = "done"

Registered(c) == c.action_name \in DOMAIN actions

\* C1: a call whose action name is not a key of the registry fails with
\* the unknown-action error naming the action, and up to that failure the
\* connection validator has not run, no chain-client call has been made and
\* no operation has been invoked.
C1_UnknownActionFailsFirst ==
    \A t \in Threads :
       LET c == call[t] IN
       (Started(c) /\ ~Registered(c)) =>
          /\ c.validator_runs = 0
          /\ c.vcalls = <<>> /\ c.ocalls = <<>>
          /\ c.validations = 0 /\ c.invocations = 0
          /\ c.pc \in {"lookup", "done"}
          /\ Ended(c) => /\ c.phase = "failed"
                         /\ c.result.kind = "raise"
                         /\ c.result.exc.type = "KeyError"
                         /\ c.result.exc.action = c.action_name

C1_Witness ==
    \E t \in Threads :
       /\ ~Registered(call[t]) /\ Ended(call[t])
       /\ call[t].result.exc.type = "KeyError"
       /\ private_key = "ok" /\ connected

\* C2: when is_configured(verbose=True) returns false to the call of a
\* registered action, the call fails with the not-configured error,
\* validate_params is not run and the operation is never invoked.
C2_NotConfiguredStops ==
    \A t \in Threads :
       LET c == call[t] IN
       (Started(c) /\ Registered(c) /\ c.configured = "false") =>
          /\ Ended(c) /\ c.phase = "failed"
          /\ c.result = Raised(Exc("MonadConnectionError",
                                   "Monad connection is not properly configured"))
          /\ c.validations = 0 /\ c.invocations = 0
          /\ c.ocalls = <<>> /\ c.signs = 0

C2_Witness ==
    \E t \in Threads :
       /\ call[t].configured = "false" /\ Ended(call[t])
       /\ call[t].action_name = "transfer"
       /\ call[t].kwargs["amount"] = Num(150000)
       /\ call[t].vcalls = <<"is_connected", "get_balance">>

\* the parameters of a declaration list that the kwargs get wrong: required
\* and missing, or present and not convertible
BadParams(decl, kwargs) ==
    {decl[i].name : i \in {j \in 1..Len(decl) :
        \/ decl[j].required /\ kwargs[decl[j].name].tag = "absent"
        \/ kwargs[decl[j].name].tag = "text" /\ decl[j].type \in {"float", "int"}}}

\* the parameters a message names
NamedIn(items) == {items[i][2] : i \in {j \in 1..Len(items) : Len(items[j]) = 2}}

\* C3: when validation reports one or more errors, the call fails with the
\* invalid-parameters error, the message carries every reported error (one
\* for each parameter that is required and omitted or has a value of the
\* wrong type), and the operation is not invoked.
C3_AllParamErrorsReported ==
    \A t \in Threads :
       LET c == call[t] IN
       (c.validations > 0 /\ BadParams(actions[c.action_name], c.kwargs) # {}) =>
          /\ Ended(c) /\ c.phase = "failed"
          /\ c.result.kind = "raise"
          /\ c.result.exc.type = "ValueError"
          /\ c.result.exc.msg = "Invalid parameters"
          /\ \A i \in 1..Len(c.errors) :
                \E j \in 1..Len(c.result.exc.items) : c.result.exc.items[j] = c.errors[i]
          /\ NamedIn(c.result.exc.items) = BadParams(actions[c.action_name], c.kwargs)
          /\ c.invocations = 0 /\ c.ocalls = <<>> /\ c.signs = 0

C3_Witness ==
    \E t \in Threads :
       /\ call[t].action_name = "transfer" /\ Ended(call[t])
       /\ call[t].kwargs["to_address"] = Absent
       /\ call[t].kwargs["amount"] = Text("abc")
       /\ Len(call[t].errors) = 2

\* the phases a call may have been in, in order
PhaseOrder == <<"received", "configuration_checked", "params_validated", "executing">>

IsPrefix(s, full) == Len(s) <= Len(full) /\ \A i \in 1..Len(s) : s[i] = full[i]

\* C4: the phases of a call are a prefix of received, configuration_checked,
\* params_validated, executing, closed by completed (only after executing)
\* or failed; nothing follows completed or failed, and the operation is
\* invoked exactly when executing is entered, so at most once.
C4_PhasesInOrder ==
    \A t \in Threads :
       LET c == call[t]
           n == Len(c.trace)
       IN
       Started(c) =>
          /\ n >= 1
          /\ c.phase = c.trace[n]
          /\ \/ IsPrefix(c.trace, PhaseOrder)
             \/ /\ c.trace[n] = "failed"
                /\ IsPrefix(SubSeq(c.trace, 1, n - 1), PhaseOrder) /\ n >= 2
             \/ /\ c.trace[n] = "completed"
                /\ SubSeq(c.trace, 1, n - 1) = PhaseOrder
          /\ c.invocations = (IF \E i \in 1..n : c.trace[i] = "executing" THEN 1 ELSE 0)
          /\ c.validator_runs <= 1 /\ c.validations <= 1
          /\ (c.phase \in {"completed", "failed"}) = Ended(c)
          /\ (c.ocalls # <<>> \/ c.signs > 0) => c.invocations = 1

C4_Witness ==
    \E t \in Threads :
       /\ call[t].trace = PhaseOrder \o <<"failed">>
       /\ call[t].action_name = "transfer"
       /\ call[t].invocations = 1

Invoked(c, method) == c.invocations = 1 /\ MethodName(c.action_name) = method

\* the operation of the call has returned or raised
OpEnded(c) == c.op_result.kind # "none"

\* C6: transfer and execute_private_payment called with an amount <= 0
\* fail, and the operation makes no chain-client call at all.
C6_NonPositiveAmountNoChainCall ==
    \A t \in Threads :
       LET c == call[t] IN
       ((Invoked(c, "transfer") \/ Invoked(c, "execute_private_payment"))
            /\ c.kwargs["amount"].n <= 0) =>
          /\ c.ocalls = <<>>
          /\ OpEnded(c) => c.op_result.kind = "raise"

\* C7: a transfer whose to_address is not syntactically an address issues
\* no balance query and no transaction-count query.
C7_InvalidAddressNoChainCall ==
    \A t \in Threads :
       LET c == call[t] IN
       (Invoked(c, "transfer") /\ ~IsHexAddress(c.kwargs["to_address"].s)) =>
          /\ ~Contains(c.ocalls, "get_balance")
          /\ ~Contains(c.ocalls, "balanceOf")
          /\ ~Contains(c.ocalls, "get_transaction_count")

ChainBalance(token) ==
    IF token.tag = "absent" \/ IsNativeSentinel(token.s) THEN native_balance ELSE token_balance

\* C9: in transfer, with available balance B and required balance R, the
\* call fails with the insufficient-balance error reporting R and B if and
\* only if B < R, and goes on to the nonce fetch if and only if B >= R.
C9_BalanceCheck ==
    \A t \in Threads :
       LET c == call[t]
           B == c.current_balance
           R == c.total_required
           failed == /\ c.op_result.kind = "raise"
                     /\ c.op_result.exc.msg = "Insufficient balance"
           proceeded == \/ c.pc = "transfer_nonce"
                        \/ Contains(c.ocalls, "get_transaction_count")
       IN
       (Invoked(c, "transfer") /\ c.balance_checked) =>
          /\ c.balance_query_ok => B = ChainBalance(c.kwargs["token_address"])
          /\ failed <=> B < R
          /\ failed => c.op_result.exc.nums = <<R, B>> /\ c.op_result.exc.type = "ValueError"
          /\ proceeded <=> B >= R

C9_Witness ==
    \E t \in Threads :
       /\ Invoked(call[t], "transfer") /\ call[t].balance_checked
       /\ call[t].balance_query_ok
       /\ call[t].current_balance = 150105 /\ call[t].total_required = 150105
       /\ call[t].nonce = 0

\* C10: a transfer built as a native-asset transaction has been checked
\* against amount + gas price x 21000 (0.00105 of a unit, 105 ticks).
C10_NativeRequirementIncludesGas ==
    \A t \in Threads :
       LET c == call[t] IN
       (/\ Invoked(c, "transfer") /\ c.tx.kind = "native"
        /\ (c.kwargs["token_address"].tag = "absent"
               \/ IsNativeSentinel(c.kwargs["token_address"].s))) =>
          c.total_required = c.kwargs["amount"].n + 105

(***************************************************************************)
(* Properties of the transaction builder                                   *)
(***************************************************************************)
InsufficientBalance(c) ==
    /\ Invoked(c, "transfer")
    /\ c.op_result.kind = "raise"
    /\ c.op_result.exc.msg = "Insufficient balance"

\* C11: a transfer that fails its balance check makes no further
\* chain-client call: its only calls are those of the balance query, it
\* fetches no nonce, signs nothing and submits nothing, and the chain's
\* transactions and transaction count are what they were when the call began.
C11_FailedCheckLeavesChainAlone ==
    \A t \in Threads :
       LET c == call[t] IN
       InsufficientBalance(c) =>
          /\ c.ocalls \in {<<>>, <<"get_balance">>, <<"decimals">>, <<"decimals", "balanceOf">>}
          /\ c.nonce = -1 /\ c.signs = 0 /\ c.tx = NoTx
          /\ tx_count = c.tx_count_at_start
          /\ Len(submitted) = c.submitted_at_start

C11_Witness ==
    \E t \in Threads :
       /\ InsufficientBalance(call[t]) /\ Ended(call[t])
       /\ call[t].op_result.exc.nums = <<150105, 100000>>
       /\ call[t].ocalls = <<"get_balance">>

\* an address without regard to the case of its hex digits
LowerCase(a) ==
    IF a \in {ADDR_OK, ADDR_BADSUM} THEN "0x06a8307922cadcfd5d4489cf69030ca96e823145" ELSE a

Count(s, x) == Cardinality({i \in 1..Len(s) : s[i] = x})

\* C12: a successful native transfer of amount a has submitted exactly one
\* transaction, whose value is a in the smallest unit the model counts
\* (10^4 gwei to the tick), whose gas is 21000 and whose recipient is
\* to_address, and the result names the explorer URL of the id the chain
\* returned for that submission.
C12_NativeTransferResult ==
    \A t \in Threads :
       LET c == call[t]
           v == c.op_result.value
       IN
       (Invoked(c, "transfer") /\ c.op_result.kind = "return" /\ c.tx.kind = "native") =>
          /\ Count(c.ocalls, "send_raw_transaction") = 1
          /\ Len(submitted) = c.submitted_at_start + 1
          /\ c.tx.value = c.kwargs["amount"].n * 10000
          /\ c.tx.gas = 21000
          /\ LowerCase(c.tx.to) = LowerCase(c.kwargs["to_address"].s)
          /\ v.text = "Transaction sent"
          /\ v.host = "testnet.monadexplorer.com"
          /\ v.tx \in 1..Len(submitted)
          /\ v.tx > c.submitted_at_start
          /\ submitted[v.tx] = c.tx

C12_Witness ==
    \E t \in Threads :
       /\ Invoked(call[t], "transfer") /\ Ended(call[t])
       /\ call[t].result.kind = "return"
       /\ call[t].tx.kind = "native" /\ call[t].tx.value = 1500000000
       /\ call[t].kwargs["token_address"] = Absent
       /\ call[t].call_no = 2 /\ call[t].result.value.tx = 2

\* a transaction carries a nonce, the fixed gas price and the expected chain id
FullyResolved(tx) ==
    /\ tx.nonce \in Nat
    /\ tx.gasPrice = 50
    /\ tx.chainId = 10143

\* C13: every transaction that transfer, deposit_funds or withdraw_funds
\* hands to send_raw_transaction, accepted by the chain or not, carries the
\* nonce read for it, a gas price of 50 gwei and the chain id 10143.
C13_SubmittedTxResolved ==
    /\ \A i \in 1..Len(submitted) : FullyResolved(submitted[i])
    /\ \A t \in Threads :
          LET c == call[t] IN
          (Contains(c.ocalls, "send_raw_transaction") \/ c.pc = "transfer_send") =>
             /\ MethodName(c.action_name) \in {"transfer", "deposit_funds", "withdraw_funds"}
             /\ FullyResolved(c.tx)
             /\ c.tx.nonce = c.nonce
             /\ Contains(c.ocalls, "get_transaction_count")

C13_Witness ==
    /\ Len(submitted) = 2
    /\ submitted[1].kind = "withdraw"
    /\ submitted[2].kind = "erc20"

(***************************************************************************)
(* Concurrent transfers: agent_action runs each perform_action on its own  *)
(* worker thread (asyncio.to_thread), and nothing serialises them          *)
(***************************************************************************)
\* each worker makes one transfer call for the same account
RaceReceive(t) ==
    /\ call[t].phase = "idle"
    /\ \E token \in {Absent, Text(ERC20_TOKEN)} :
         Set(t, [Enter(IdleCall, "received") EXCEPT
                    !.pc = "lookup", !.call_no = 1,
                    !.tx_count_at_start = tx_count,
                    !.submitted_at_start = Len(submitted),
                    !.action_name = "transfer",
                    !.kwargs = [NoKwargs EXCEPT !["to_address"] = Text(ADDR_OK),
                                                !["amount"] = Num(150000),
                                                !["token_address"] = token]])
    /\ UNCHANGED <<server, actions, boot, env, chain>>

RaceInit ==
    /\ Init
    /\ private_key = "ok"
    /\ connected

RaceNext ==
    \E t \in Threads :
       \/ RaceReceive(t)
       \/ Lookup(t)
       \/ CheckConfigured(t)
       \/ ValidateParams(t)
       \/ Invoke(t)
       \/ TransferCheckBalance(t)
       \/ TransferFetchNonce(t)
       \/ TransferBuildSign(t)
       \/ TransferSend(t)
       \/ Finish(t)

SpecRace == RaceInit /\ [][RaceNext]_vars

\* the call has handed a transaction to send_raw_transaction
Handed(c) == Invoked(c, "transfer") /\ Contains(c.ocalls, "send_raw_transaction")

\* C14: no interleaving of two transfer calls of the same account lets both
\* hand over a transaction carrying the same nonce.
C14_NoSharedNonce ==
    \A t1, t2 \in Threads :
       (t1 # t2 /\ Handed(call[t1]) /\ Handed(call[t2])) =>
          call[t1].tx.nonce # call[t2].tx.nonce

(***************************************************************************)
(* Sequential transfers                                                    *)
(***************************************************************************)
IsTransferTx(tx) == tx.kind \in {"native", "erc20"}

\* C15: in transfer the nonce of the signed transaction is the transaction
\* count read from the chain in the same call, after the balance check passed
\* and before signing; nothing is carried over between calls, so successive
\* successful transfers of a sequential run carry strictly increasing nonces.
C15_FreshNonce ==
    /\ \A t \in SeqThreads : LET c == call[t] IN
          Invoked(c, "transfer") =>
             /\ Contains(c.ocalls, "get_transaction_count") =>
                   /\ c.balance_checked
                   /\ ~insufficient(c.current_balance, c.total_required)
             /\ c.pc \in {"transfer_build", "transfer_send"} =>
                   /\ c.nonce = tx_count
                   /\ c.nonce = c.tx_count_at_start
             /\ c.signs >= 1 =>
                   /\ Contains(c.ocalls, "get_transaction_count")
                   /\ c.tx.nonce = c.nonce
                   /\ c.tx.nonce = c.tx_count_at_start
    /\ \A i, j \in 1..Len(submitted) :
          (i < j /\ IsTransferTx(submitted[i]) /\ IsTransferTx(submitted[j])) =>
             submitted[i].nonce < submitted[j].nonce

C15_Witness ==
    /\ Len(submitted) = 2
    /\ IsTransferTx(submitted[1]) /\ IsTransferTx(submitted[2])
    /\ submitted[1].nonce = 0 /\ submitted[2].nonce = 1

(***************************************************************************)
(* Construction: __init__ and _initialize_web3                             *)
(***************************************************************************)
\* what one pass through the try block of _initialize_web3 can meet
BootOutcomes == {"provider_error", "unreachable", "chain_id_error", "wrong_chain", "ok"}

\* a chain identifier other than MONAD_CHAIN_ID
OTHER_CHAIN_ID == 1

\* the exception a failed attempt raises inside the try block
AttemptExc(outcome) ==
    CASE outcome = "unreachable" ->
            Exc("MonadConnectionError", "Failed to connect to Monad network")
      [] outcome = "wrong_chain" ->
            [Exc("MonadConnectionError", "Connected to wrong chain") EXCEPT
                !.nums = <<MONAD_CHAIN_ID, OTHER_CHAIN_ID>>]
      [] outcome = "provider_error" ->
            Exc("Exception", "Web3 provider or middleware setup failed")
      [] outcome = "chain_id_error" ->
            Exc("RPCError", "eth.chain_id failed")
      [] OTHER -> NoExc

\* lines 71-79: __init__ refuses a configuration without an RPC URL and
\* otherwise enters _initialize_web3
BootConstruct ==
    /\ boot.pc = "new"
    /\ \E rpc_url \in {"", "https://testnet-rpc.monad.xyz"} :
         IF rpc_url = ""
            THEN boot' = [boot EXCEPT !.pc = "rejected",
                             !.error = Exc("ValueError", "RPC URL must be provided in config")]
            ELSE boot' = [boot EXCEPT !.pc = "attempt", !.attempt = 0]
    /\ UNCHANGED <<server, actions, env, chain, call>>

\* a loop that gives up one attempt later
BootAttemptFourth ==
    /\ boot.pc = "attempt"
    /\ \E outcome \in BootOutcomes :
         LET b == [boot EXCEPT !.attempts = @ + 1, !.history = Append(@, outcome)]
         IN IF outcome = "ok"
               THEN boot' = [b EXCEPT !.pc = "connected"]
            ELSE IF boot.attempt = 3
               THEN boot' = [b EXCEPT !.pc = "failed",
                                !.error = [Exc("MonadConnectionError",
                                               "Failed to initialize Web3 after 3 attempts")
                                           EXCEPT !.cause = <<AttemptExc(outcome)>>]]
            ELSE boot' = [b EXCEPT !.pc = "sleep"]
    /\ UNCHANGED <<server, actions, env, chain, call>>

\* lines 89-108: one pass through the loop body up to break, raise or sleep
BootAttempt ==
    /\ boot.pc = "attempt"
    /\ \E outcome \in BootOutcomes :
         LET b == [boot EXCEPT !.attempts = @ + 1, !.history = Append(@, outcome)]
         IN IF outcome = "ok"
               THEN boot' = [b EXCEPT !.pc = "connected"]
            ELSE IF boot.attempt = 2
               THEN boot' = [b EXCEPT !.pc = "failed",
                                !.error = [Exc("MonadConnectionError",
                                               "Failed to initialize Web3 after 3 attempts")
                                           EXCEPT !.cause = <<AttemptExc(outcome)>>]]
            ELSE boot' = [b EXCEPT !.pc = "sleep"]
    /\ UNCHANGED <<server, actions, env, chain, call>>

\* line 109 and the loop header: time.sleep(1), then the next attempt
BootSleep ==
    /\ boot.pc = "sleep"
    /\ boot' = [boot EXCEPT !.pc = "attempt", !.attempt = @ + 1, !.sleeps = @ + 1]
    /\ UNCHANGED <<server, actions, env, chain, call>>

BootInit ==
    /\ EnvInit
    /\ boot = NewBoot

BootNext ==
    \/ BootConstruct
    \/ BootAttempt
    \/ BootSleep

\* the constructor is straight-line code: every step it can take, it takes
SpecBoot == BootInit /\ [][BootNext]_vars /\ WF_vars(BootNext)

BootEnded == boot.pc \in {"connected", "failed", "rejected"}

AllOutcomes(h, outcome) == \A i \in 1..Len(h) : h[i] = outcome

C16_AttemptsBounded ==
    /\ boot.attempts = Len(boot.history)
    /\ boot.attempts <= 3
    /\ boot.sleeps <= 2
    /\ \A i \in 1..Len(boot.history) :
          boot.history[i] = "ok" => (i = Len(boot.history) /\ boot.pc = "connected")
    /\ boot.pc = "connected" =>
          (boot.history # <<>> /\ boot.history[Len(boot.history)] = "ok")
    /\ boot.pc = "failed" =>
          /\ boot.attempts = 3
          /\ ~Contains(boot.history, "ok")
          /\ boot.error.type = "MonadConnectionError"
          /\ boot.error.msg = "Failed to initialize Web3 after 3 attempts"
    /\ (boot.attempts = 3 /\ AllOutcomes(boot.history, "unreachable")) =>
          boot.pc = "failed"

\* C16: bootstrap makes at most 3 attempts; three transient failures are
\* exactly 3 attempts followed by the connection-init error; a successful
\* attempt k is the last attempt and construction completes; bootstrap always
\* terminates.
C16_BootstrapBounded == [](C16_AttemptsBounded) /\ <>BootEnded

C16_Witness ==
    /\ boot.pc = "failed"
    /\ boot.history = <<"unreachable", "unreachable", "unreachable">>
    /\ boot.sleeps = 2

\* C17: a chain-id mismatch ends bootstrap at once with a wrong-network
\* error; no attempt follows it.
C17_WrongChainNotRetried ==
    \A i \in 1..Len(boot.history) :
       boot.history[i] = "wrong_chain" =>
          /\ i = Len(boot.history)
          /\ boot.pc = "failed"
          /\ boot.error.msg = "Connected to wrong chain"

(***************************************************************************)
(* Failures of the chain client                                            *)
(***************************************************************************)
\* a chain-client step of the call's operation has failed
ChainStepFailed(c) == c.chain_errors # <<>>

\* C18: when a chain-client step of deposit_funds or withdraw_funds fails,
\* the operation reports a failure; it never returns a success-shaped result
\* for a transaction that was not submitted.
C18_ChainFailureReported ==
    \A t \in SeqThreads : LET c == call[t] IN
       ((Invoked(c, "deposit_funds") \/ Invoked(c, "withdraw_funds"))
           /\ OpEnded(c) /\ ChainStepFailed(c)) =>
          /\ c.op_result.kind = "raise"
          /\ c.op_result.value = NoValue

\* the exception is a chain-client error or wraps one
IsChainFailure(e) ==
    \/ e.type = "RPCError"
    \/ (e.cause # <<>> /\ e.cause[1].type = "RPCError")

\* C19: a chain-client error at any chain call of transfer makes the transfer
\* fail with an error carrying that cause; the failed call is not retried and
\* nothing is submitted afterwards; a failed balance query is not turned into
\* an available balance of 0.
C19_TransferChainErrorPropagates ==
    \A t \in SeqThreads : LET c == call[t] IN
       (Invoked(c, "transfer") /\ ChainStepFailed(c)) =>
          /\ OpEnded(c)
          /\ c.op_result.kind = "raise"
          /\ IsChainFailure(c.op_result.exc)
          /\ Len(c.chain_errors) = 1
          /\ c.ocalls[Len(c.ocalls)] = c.chain_errors[1]
          /\ Len(submitted) = c.submitted_at_start

\* C20: when account resolution or the chain query fails during get-address
\* or get-balance, dispatch ends in a failure with a structured error, never
\* in a normal result (a 'Failed to get address' string or a balance of 0).
C20_QueryFailureIsStructured ==
    \A t \in SeqThreads : LET c == call[t] IN
       /\ (Invoked(c, "get_balance") /\ OpEnded(c)
              /\ (ChainStepFailed(c) \/ get_current_account_exc # NoExc)) =>
             /\ c.op_result.kind = "raise"
             /\ c.phase \in {"completed", "failed"} =>
                   (c.result.kind = "raise" /\ c.result.exc.type # "")
       /\ (Invoked(c, "get_address") /\ OpEnded(c)
              /\ get_current_account_exc # NoExc) =>
             /\ c.op_result.kind = "raise"
             /\ c.phase \in {"completed", "failed"} =>
                   (c.result.kind = "raise" /\ c.result.exc.type # "")

(***************************************************************************)
(* The connection validator                                                *)
(***************************************************************************)
\* the dispatcher's own error for a validator that said no
NotConfiguredError(e) ==
    e.type = "MonadConnectionError" /\ e.msg = "Monad connection is not properly configured"

\* C21: is_configured never raises; it returns true exactly when the key is
\* present, the client reports connected and the resolved account's balance
\* is fetched without error; the checks run in that order and stop at the
\* first failure.
C21_ValidatorOrderedChecks ==
    \A t \in SeqThreads : LET c == call[t] IN
       c.validator_runs >= 1 =>
          /\ c.validator_runs = 1
          /\ c.configured \in {"true", "false"}
          /\ (c.configured = "true") <=>
                /\ private_key # "absent"
                /\ connected
                /\ Contains(c.vcalls, "get_balance")
                /\ c.verrors = <<>>
          /\ IsPrefix(c.vcalls, <<"is_connected", "get_balance">>)
          /\ private_key = "absent" => c.vcalls = <<>>
          /\ (private_key # "absent" /\ ~connected) => c.vcalls = <<"is_connected">>
          /\ Contains(c.vcalls, "get_balance") => get_current_account_exc = NoExc
          /\ c.configured = "false" =>
                (c.phase = "failed" /\ NotConfiguredError(c.result.exc))

C21_Witness ==
    \E t \in SeqThreads : LET c == call[t] IN
       /\ c.validator_runs = 1
       /\ private_key = "absent"
       /\ connected
       /\ c.configured = "false"
       /\ c.vcalls = <<>>

(***************************************************************************)
(* Dispatch while the process environment changes between calls            *)
(***************************************************************************)
MaxDispatches == 3

NoCallInProgress == \A t \in Threads : call[t].phase \in {"idle", "completed", "failed"}

\* how an ended call ended
Outcome(c) ==
    IF c.phase = "completed" THEN "completed"
    ELSE IF c.result.exc.type = "MonadConnectionError"
            /\ c.result.exc.msg = "Monad connection is not properly configured"
       THEN "not_configured"
    ELSE "failed"

\* MONAD_PRIVATE_KEY is set, unset or replaced between two calls
EnvSetPrivateKey ==
    /\ NoCallInProgress
    /\ \E key \in {"absent", "malformed", "ok"} \ {private_key} : private_key' = key
    /\ UNCHANGED <<server, actions, boot, connected, native_balance, token_balance, chain, call>>

\* the node becomes unreachable, or reachable again, between two calls
EnvSetConnected ==
    /\ NoCallInProgress
    /\ connected' = ~connected
    /\ UNCHANGED <<server, actions, boot, private_key, native_balance, token_balance, chain, call>>

\* the caller's next perform_action('get-address')
EnvReceive(t) ==
    LET c == call[t] IN
    /\ c.phase \in {"idle", "completed", "failed"}
    /\ c.call_no < MaxDispatches
    /\ Set(t, [Enter(IdleCall, "received") EXCEPT
                  !.pc = "lookup", !.call_no = c.call_no + 1,
                  !.tx_count_at_start = tx_count,
                  !.submitted_at_start = Len(submitted),
                  !.earlier = IF c.phase = "idle" THEN <<>>
                              ELSE Append(c.earlier, Outcome(c)),
                  !.action_name = "get-address", !.kwargs = NoKwargs])
    /\ UNCHANGED <<server, actions, boot, env, chain>>

EnvInitial ==
    /\ Init
    /\ native_balance = 100000
    /\ token_balance = 0

EnvNext ==
    \/ EnvSetPrivateKey
    \/ EnvSetConnected
    \/ \E t \in SeqThreads :
          \/ EnvReceive(t)
          \/ Lookup(t)
          \/ CheckConfigured(t)
          \/ ValidateParams(t)
          \/ Invoke(t)
          \/ GetAddress(t)
          \/ Finish(t)

SpecEnv == EnvInitial /\ [][EnvNext]_vars

\* the environment would let is_configured reach its balance query
EnvUsable == private_key = "ok" /\ connected

\* C22: the validator is evaluated afresh on every dispatch: whatever the
\* earlier calls answered, a call made while the key is missing or the client
\* unreachable fails with the not-configured error, and a call made after the
\* condition is restored passes the check again.
C22_ValidatorNotCached ==
    \A t \in SeqThreads : LET c == call[t] IN
       /\ (c.pc \in {"validate", "invoke", "get_address", "op_done"}) =>
             /\ c.validator_runs = 1
             /\ c.configured = "true"
             /\ c.vcalls = <<"is_connected", "get_balance">>
             /\ EnvUsable
       /\ (c.validator_runs = 1 /\ c.configured = "false") =>
             /\ c.phase = "failed"
             /\ Outcome(c) = "not_configured"
             /\ c.invocations = 0
       /\ (c.validator_runs = 1 /\ c.vcalls = <<>>) => c.configured = "false"
       /\ c.phase = "completed" => (c.validator_runs = 1 /\ c.configured = "true")

C22_Witness ==
    \E t \in SeqThreads : LET c == call[t] IN
       /\ c.earlier = <<"completed", "not_configured">>
       /\ c.phase = "completed"

(***************************************************************************)
(* The account resolver                                                    *)
(***************************************************************************)
\* C23: the resolver fails with a missing-key error when no key is
\* configured and with a malformed-key configuration error when the key is
\* not well formed; the key is checked syntactically first, so derivation is
\* never invoked on a malformed key.
C23_MalformedKeyCheckedFirst ==
    \A t \in SeqThreads : LET c == call[t] IN
       c.validator_runs = 1 =>
          /\ private_key = "absent" =>
                /\ get_current_account_exc.type = "MonadConnectionError"
                /\ get_current_account_exc.msg = "No wallet private key configured"
                /\ ~from_key_invoked
          /\ private_key = "malformed" =>
                /\ get_current_account_exc.type = "MonadConnectionError"
                /\ get_current_account_exc.msg = "Invalid private key format"
                /\ ~from_key_invoked

(***************************************************************************)
(* The action registry                                                     *)
(***************************************************************************)
\* C24: after any sequence of perform_action calls, successful or failed,
\* the registered names and each action's parameter declarations are exactly
\* those register_actions created.
C24_RegistryImmutable ==
    /\ DOMAIN actions = DOMAIN register_actions
    /\ \A name \in DOMAIN register_actions : actions[name] = register_actions[name]

C24_Witness ==
    \E t \in SeqThreads : LET c == call[t] IN
       /\ c.call_no = 2
       /\ c.phase = "failed"
       /\ c.action_name \notin DOMAIN register_actions
       /\ Len(submitted) = 1
       /\ actions = register_actions

(***************************************************************************)
(* Decoys                                                                  *)
(***************************************************************************)
\* the count generate_ai_decoys works with: the default 4 when none is passed
requested_count(c) ==
    IF c.kwargs["count"].tag = "absent" THEN 4 ELSE c.kwargs["count"].n

\* C25: generate_ai_decoys(amount, n) with n >= 0 returns n decoys and
\* reports decoys_generated = n; execute_private_payment reports a decoy total
\* equal to its effective decoy count.
C25_DecoyCountHonoured ==
    \A t \in SeqThreads : LET c == call[t] IN
       /\ (Invoked(c, "generate_ai_decoys") /\ c.op_result.kind = "return"
              /\ requested_count(c) >= 0) =>
             /\ Len(c.op_result.value.decoys) = requested_count(c)
             /\ c.op_result.value.nums = <<requested_count(c)>>
       /\ (Invoked(c, "execute_private_payment") /\ c.op_result.kind = "return") =>
             c.op_result.value.nums[1] = effective_decoy_count(c.kwargs["decoy_count"])

(***************************************************************************)
(* Deposits                                                                *)
(***************************************************************************)
\* C26: deposit_funds called with an amount <= 0 fails with 'Amount must be
\* greater than 0'; it makes no chain-client call and returns no deposit
\* result, real or simulated.
C26_NonPositiveDepositFails ==
    \A t \in SeqThreads : LET c == call[t] IN
       (Invoked(c, "deposit_funds") /\ OpEnded(c) /\ c.kwargs["amount"].n <= 0) =>
          /\ c.ocalls = <<>>
          /\ c.op_result.kind = "raise"
          /\ c.op_result.exc.msg = "Amount must be greater than 0"

(***************************************************************************)
(* ServerState: the agent loop (server/app.py)                             *)
(***************************************************************************)
connection == <<actions, boot, env, chain, call>>

\* the thread has been started and its run() has not returned
Alive(i) == server.loop[i] \in {"check", "body", "finally", "exiting"}

\* start_agent_loop: a coroutine without await, so it runs in one piece on
\* the event loop; it cannot run while stop_agent_loop blocks in join
StartAgentLoop ==
    /\ server.stop_pc = "idle"
    /\ IF server.agent_running
          THEN server' = [server EXCEPT !.last = "already_running"]
          ELSE \E i \in LoopThreads :
                 /\ server.loop[i] = "none"
                 /\ \A j \in LoopThreads : j < i => server.loop[j] # "none"
                 /\ server' = [server EXCEPT !.agent_running = TRUE,
                                             !.stop_event = FALSE,
                                             !.agent_task = i,
                                             !.loop[i] = "check",
                                             !.last = "started"]
    /\ UNCHANGED connection

\* stop_agent_loop up to the join: if self.agent_running: self._stop_event.set()
StopAgentLoop ==
    /\ server.stop_pc = "idle"
    /\ IF server.agent_running
          THEN server' = [server EXCEPT
                             !.stop_event = TRUE,
                             !.stop_pc = "join",
                             !.stopped = IF Alive(server.agent_task)
                                            THEN @ \cup {server.agent_task} ELSE @,
                             !.last = "stopping"]
          ELSE server' = [server EXCEPT !.last = "not_running"]
    /\ UNCHANGED connection

\* self.agent_task.join(timeout=5) returns, the thread ended or not, and
\* stop_agent_loop lowers the flag
StopJoinReturns ==
    /\ server.stop_pc = "join"
    /\ server' = [server EXCEPT
                     !.agent_running = FALSE,
                     !.stop_pc = "idle",
                     !.last = IF Alive(server.agent_task) THEN "join_timed_out"
                              ELSE "joined"]
    /\ UNCHANGED connection

\* while not self._stop_event.is_set()
LoopCheck(i) ==
    /\ server.loop[i] = "check"
    /\ server' = [server EXCEPT !.loop[i] = IF server.stop_event THEN "finally" ELSE "body"]
    /\ UNCHANGED connection

\* the loop body: the monitoring line is logged once per thread
LoopBody(i) ==
    /\ server.loop[i] = "body"
    /\ server' = [server EXCEPT !.loop[i] = "check", !.log_once[i] = TRUE]
    /\ UNCHANGED connection

\* finally: self.agent_running = False
LoopFinally(i) ==
    /\ server.loop[i] = "finally"
    /\ server' = [server EXCEPT !.agent_running = FALSE, !.loop[i] = "exiting"]
    /\ UNCHANGED connection

\* the last log line; run() returns
LoopExit(i) ==
    /\ server.loop[i] = "exiting"
    /\ server' = [server EXCEPT !.loop[i] = "dead"]
    /\ UNCHANGED connection

LoopStep(i) == LoopCheck(i) \/ LoopBody(i) \/ LoopFinally(i) \/ LoopExit(i)

ServerInit ==
    /\ Init
    /\ private_key = "ok"
    /\ connected
    /\ native_balance = 1000000
    /\ token_balance = 0

ServerNext ==
    \/ StartAgentLoop
    \/ StopAgentLoop
    \/ StopJoinReturns
    \/ \E i \in LoopThreads :
          \/ LoopCheck(i)
          \/ LoopBody(i)
          \/ LoopFinally(i)
          \/ LoopExit(i)

\* every started thread keeps being scheduled, and join returns after its
\* timeout at the latest; requests arrive or not
SpecServer ==
    /\ ServerInit
    /\ [][ServerNext]_vars
    /\ \A i \in LoopThreads : WF_vars(LoopStep(i))
    /\ WF_vars(StopJoinReturns)

\* C27: under any interleaving of start_agent_loop, stop_agent_loop (whose
\* join may time out) and the loop thread's steps, at most one agent-loop
\* thread is alive.
C27_AtMostOneLoopThread ==
    Cardinality({i \in LoopThreads : Alive(i)}) <= 1

\* C28: agent_running is true whenever an agent-loop thread is alive.
C28_FlagCoversLiveThread ==
    (\E i \in LoopThreads : Alive(i)) => server.agent_running

\* C29: a loop thread that was running when stop_agent_loop was called
\* eventually terminates, also when start_agent_loop is called again.
C29_StoppedThreadTerminates ==
    \A i \in LoopThreads : (i \in server.stopped) ~> (server.loop[i] = "dead")

(***************************************************************************)
(* Method resolution                                                       *)
(***************************************************************************)
\* the spelling of a name: its words and the separators between them
Spell(name) ==
    CASE name = "get-balance" -> <<"get", "-", "balance">>
      [] name = "transfer" -> <<"transfer">>
      [] name = "get-address" -> <<"get", "-", "address">>
      [] name = "deposit-funds" -> <<"deposit", "-", "funds">>
      [] name = "execute-private-payment" -> <<"execute", "-", "private", "-", "payment">>
      [] name = "generate-ai-decoys" -> <<"generate", "-", "ai", "-", "decoys">>
      [] name = "get-privacy-score" -> <<"get", "-", "privacy", "-", "score">>
      [] name = "get-privacy-metrics" -> <<"get", "-", "privacy", "-", "metrics">>
      [] name = "get-global-stats" -> <<"get", "-", "global", "-", "stats">>
      [] name = "withdraw-funds" -> <<"withdraw", "-", "funds">>
      [] name = "get-contract-info" -> <<"get", "-", "contract", "-", "info">>
      [] name = "get_balance" -> <<"get", "_", "balance">>
      [] name = "get_address" -> <<"get", "_", "address">>
      [] name = "deposit_funds" -> <<"deposit", "_", "funds">>
      [] name = "execute_private_payment" -> <<"execute", "_", "private", "_", "payment">>
      [] name = "generate_ai_decoys" -> <<"generate", "_", "ai", "_", "decoys">>
      [] name = "get_privacy_score" -> <<"get", "_", "privacy", "_", "score">>
      [] name = "get_privacy_metrics" -> <<"get", "_", "privacy", "_", "metrics">>
      [] name = "get_global_stats" -> <<"get", "_", "global", "_", "stats">>
      [] name = "withdraw_funds" -> <<"withdraw", "_", "funds">>
      [] name = "get_contract_info" -> <<"get", "_", "contract", "_", "info">>
      [] OTHER -> <<name>>

\* str.replace(old, new) on a spelling
replace(spelling, old, new) ==
    [i \in 1..Len(spelling) |-> IF spelling[i] = old THEN new ELSE spelling[i]]

\* C30: for every registered action name, the name with '-' replaced by '_'
\* is an operation defined on MonadConnection, so a registered action that
\* passes the configuration and parameter checks reaches a bound operation
\* and never fails at method resolution.
C30_RegisteredActionsResolve ==
    /\ \A name \in DOMAIN actions :
          /\ MethodName(name) \in Methods
          /\ Spell(MethodName(name)) = replace(Spell(name), "-", "_")
    /\ \A t \in SeqThreads : LET c == call[t] IN
          /\ (c.action_name \in DOMAIN actions /\ c.phase = "failed") =>
                c.result.exc.type # "AttributeError"
          /\ (Contains(c.trace, "params_validated") /\ c.pc # "invoke") =>
                /\ c.invocations = 1
                /\ Contains(c.trace, "executing")

C30_Witness ==
    \E t \in SeqThreads : LET c == call[t] IN
       /\ c.action_name = "get-contract-info"
       /\ Invoked(c, "get_contract_info")
       /\ c.phase = "completed"

====
